---- MODULE Spec2Model ----
(***************************************************************************)
(* Git Granary (dbushell/granary): a Git LFS batch server.                 *)
(*                                                                         *)
(* The model follows the JavaScript run-to-completion semantics: one       *)
(* action is one synchronous segment of a handler, from its start or from  *)
(* the resumption of an `await` to the next `await` or `return`.           *)
(*                                                                         *)
(* Time is in milliseconds (Date.now()).  crypto.randomUUID() and the      *)
(* 16 random token bytes are modelled as fresh draws: the n-th call of     *)
(* BatchStore.action yields uuid n and token n.                            *)
(***************************************************************************)
EXTENDS Integers, Sequences, FiniteSets, Bags, TLC

\* ------------------------------------------------------------------ bounds

\* Calls of BatchStore.action (random uuid/token draws) in one run.
MaxDraws == 2
\* Objects in one batch request.
MaxObjects == 2
\* Clock advances in one run.
MaxTicks == 2
\* Handlers suspended at an `await` at the same time.
MaxTasks == 1
\* Largest declared object size, and longest request body, in bytes.
MaxSize == 2

\* --------------------------------------------------------- program constants

\* BatchStore.EXPIRES_IN: action expiry duration in seconds.
EXPIRES_IN == 3600

\* A reference that is undefined (references into the heap start at 1).
Undefined == 0
\* headers.get() of a header that is absent; every use treats "" the same way.
NoHeader == <<>>

Repos == {"repo"}
\* The directories of the storage root: the repo above and a second one
AllRepos == Repos \cup {"other"}
Bytes == {1, 2}
Sizes == 1 .. MaxSize
Contents == UNION {[1 .. n -> Bytes] : n \in 0 .. MaxSize}

RECURSIVE Sum(_)
Sum(s) == IF s = <<>> THEN 0 ELSE Head(s) + Sum(Tail(s))

\* crypto.subtle.digest("SHA-256", stream) then encodeHex: a fixed function of
\* the bytes.  The model's digest is the byte sum, so distinct contents may
\* collide; no property below relies on the digest being injective.
SHA256(bytes) == Sum(bytes)

\* The oids clients name: oid 2 is the digest of <<2>> and of <<1, 1>>, oid 3 of
\* <<1, 2>> and <<2, 1>>.
Oids == {2, 3}

\* A header word (no space in it): b64 says whether it is valid base64, text is
\* what it decodes to when it is, and its characters when it is not.
Word(text) == [b64 |-> TRUE, text |-> text]
BadWord == [b64 |-> FALSE, text |-> <<"!">>]
\* encodeHex of the n-th 16 random bytes
Token(n) == Word([i \in 1 .. n |-> "f"])

Remove(f, k) == [x \in DOMAIN f \ {k} |-> f[x]]
Put(f, k, v) == [x \in DOMAIN f \cup {k} |-> IF x = k THEN v ELSE f[x]]

VARIABLES
  account,    \* BatchServer.#username and #password ("" when not configured)
  origin,     \* BatchServer.#origin: the public URL, or the local URL when
              \* no origin is configured
  adapter,    \* "deno" | "node": the BatchAdapter chosen at startup
  now,        \* Date.now(), in milliseconds
  nticks,     \* clock advances so far
  draws,      \* calls of BatchStore.action so far
  objs,       \* heap of BatchResponseObject records, by reference
  store,      \* BatchStore.#store: key -> reference into objs
  dates,      \* BatchStore.#dates: key -> creation time
  timers,     \* pending setTimeout callbacks of BatchStore.set
  dir,        \* file system: pathname -> inode, 0 when absent
  inode,      \* file system: inode -> content
  tasks,      \* handlers suspended at an await (a bag of records)
  last,       \* the response of the handler that finished last after an await
  hist        \* history, per key: when it was registered (at), the
              \* authorization header of the batch request that registered it
              \* (by), the entry registered (ref), how often get() handed the
              \* entry out (got) and how often its token was then accepted (ok)

vars == <<account, origin, adapter, now, nticks, draws, objs, store, dates, timers, dir, inode,
          tasks, last, hist>>

\* ------------------------------------------------------------- BatchStore

\* A store state is the pair of maps [store, dates]; the operations return the
\* value and the store state after their side effects.

\* A delete that forgets the date but leaves the entry in #store
StoreDeleteDateOnly(S, key) ==
  [store |-> S.store, dates |-> Remove(S.dates, key)]

\* delete(key)
StoreDelete(S, key) ==
  [store |-> Remove(S.store, key), dates |-> Remove(S.dates, key)]

\* An expired that compares with > where the code has >=
StoreExpiredLate(S, H, key, t) ==
  IF key \notin DOMAIN S.store
  THEN [ret |-> TRUE, S |-> S]
  ELSE LET object == H[S.store[key]]
           date == IF key \in DOMAIN S.dates THEN S.dates[key] ELSE 0
           expires_in == IF object.actions = <<>> THEN 0
                         ELSE object.actions[1].expires_in
           expired == (t - date) > expires_in * 1000
       IN [ret |-> expired,
           S |-> IF expired THEN [store |-> Remove(S.store, key),
                                  dates |-> Remove(S.dates, key)]
                 ELSE S]

\* expired(key) at time t, over heap H
StoreExpired(S, H, key, t) ==
  IF key \notin DOMAIN S.store
  THEN [ret |-> TRUE, S |-> S]
  ELSE LET object == H[S.store[key]]
           date == IF key \in DOMAIN S.dates THEN S.dates[key] ELSE 0
           expires_in == IF object.actions = <<>> THEN 0
                         ELSE object.actions[1].expires_in
           \* ellapsed = (t - date) / 1000 >= expires_in, without the division
           expired == (t - date) >= expires_in * 1000
       IN [ret |-> expired,
           S |-> IF expired THEN StoreDelete(S, key) ELSE S]

\* has(key)
StoreHas(S, H, key, t) ==
  LET e == StoreExpired(S, H, key, t)
  IN [ret |-> IF e.ret THEN FALSE ELSE key \in DOMAIN e.S.store, S |-> e.S]

\* get(key)
StoreGet(S, H, key, t) ==
  LET e == StoreExpired(S, H, key, t)
  IN [ret |-> IF e.ret \/ key \notin DOMAIN e.S.store THEN Undefined
              ELSE e.S.store[key],
      S |-> e.S]

\* A set that schedules no removal
StoreSetNoTimer(W, key, ref, t) ==
  [S |-> [store |-> Put(W.S.store, key, ref), dates |-> Put(W.S.dates, key, t)],
   timers |-> W.timers]

\* A set whose timer delay is EXPIRES_IN milliseconds
StoreSetSeconds(W, key, ref, t) ==
  [S |-> [store |-> Put(W.S.store, key, ref), dates |-> Put(W.S.dates, key, t)],
   timers |-> W.timers \cup {[key |-> key, due |-> t + EXPIRES_IN]}]

\* set(key, object) at time t: W is [S, timers]
StoreSet(W, key, ref, t) ==
  [S |-> [store |-> Put(W.S.store, key, ref), dates |-> Put(W.S.dates, key, t)],
   timers |-> W.timers \cup {[key |-> key, due |-> t + EXPIRES_IN * 1000]}]

\* An action whose uuid is drawn once and used for every key
StoreActionOneUuid(operation, url, n) ==
  [key |-> <<operation, 1>>,
   action |-> [op |-> operation,
               expires_in |-> EXPIRES_IN,
               authorization |-> <<"Bearer", Token(n)>>,
               href |-> [base |-> url, key |-> <<operation, 1>>]]]

\* BatchStore.action(operation, url): the n-th draw
StoreAction(operation, url, n) ==
  [key |-> <<operation, n>>,
   action |-> [op |-> operation,
               expires_in |-> EXPIRES_IN,
               authorization |-> <<"Bearer", Token(n)>>,
               href |-> [base |-> url, key |-> <<operation, n>>]]]

\* A map callback that adds the verify action to the object and leaves out the
\* second set()
RespondObjectOneSet(R, operation, url, o, t) ==
  LET a1 == StoreAction(operation, url, R.draws + 1)
      ref == Len(R.objs) + 1
      object1 == [authenticated |-> TRUE, actions |-> <<a1.action>>,
                  oid |-> o.oid, size |-> o.size]
      W1 == StoreSet([S |-> R.S, timers |-> R.timers], a1.key, ref, t)
  IN IF operation = "upload"
     THEN LET a2 == StoreAction("verify", url, R.draws + 2)
              object2 == [object1 EXCEPT !.actions = Append(@, a2.action)]
          IN [S |-> W1.S, timers |-> W1.timers,
              objs |-> Append(R.objs, object2), draws |-> R.draws + 2,
              json |-> Append(R.json, ref)]
     ELSE [S |-> W1.S, timers |-> W1.timers,
           objs |-> Append(R.objs, object1), draws |-> R.draws + 1,
           json |-> Append(R.json, ref)]

\* The body of respond's map callback for one {oid, size}.
\* R is [S, timers, objs, draws, json].
RespondObject(R, operation, url, o, t) ==
  LET a1 == StoreAction(operation, url, R.draws + 1)
      ref == Len(R.objs) + 1
      object1 == [authenticated |-> TRUE, actions |-> <<a1.action>>,
                  oid |-> o.oid, size |-> o.size]
      W1 == StoreSet([S |-> R.S, timers |-> R.timers], a1.key, ref, t)
  IN IF operation = "upload"
     THEN LET a2 == StoreAction("verify", url, R.draws + 2)
              \* object.actions.verify = action: the stored object is mutated
              object2 == [object1 EXCEPT !.actions = Append(@, a2.action)]
              W2 == StoreSet(W1, a2.key, ref, t)
          IN [S |-> W2.S, timers |-> W2.timers,
              objs |-> Append(R.objs, object2), draws |-> R.draws + 2,
              json |-> Append(R.json, ref)]
     ELSE [S |-> W1.S, timers |-> W1.timers,
           objs |-> Append(R.objs, object1), draws |-> R.draws + 1,
           json |-> Append(R.json, ref)]

\* respond(request, url): objects.map in request order
RECURSIVE StoreRespond(_, _, _, _, _)
StoreRespond(R, operation, url, objects, t) ==
  IF objects = <<>> THEN R
  ELSE StoreRespond(RespondObject(R, operation, url, Head(objects), t),
                    operation, url, Tail(objects), t)

\* Draws one respond call makes.
DrawsOf(operation, objects) ==
  IF operation = "upload" THEN 2 * Len(objects) ELSE Len(objects)

\* ------------------------------------------------------------------ utils

LFS == "application/vnd.git-lfs+json"

\* An accept header is absent or a sequence of fragments; includes() looks for
\* the content type among them.
acceptError(request, contentType) ==
  IF request.accept = NoHeader THEN 406
  ELSE IF \E i \in DOMAIN request.accept : request.accept[i] = contentType
       THEN 0 ELSE 406

methodError(request, method) == IF request.method # method THEN 405 ELSE 0

\* randomUUID draws are version-4 uuids; uuid 0 stands for a 36-character
\* string of [0-9a-f-] that is not one.
validateId(uuid) == uuid # 0

\* --------------------------------------------------------- authorization

RECURSIVE IndexOf(_, _, _)
IndexOf(s, c, i) ==
  IF i > Len(s) THEN -1 ELSE IF s[i] = c THEN i ELSE IndexOf(s, c, i + 1)

\* decoded.split(":", 2): the pieces before the first and between the first and
\* the second colon
Split2(decoded) ==
  LET i == IndexOf(decoded, ":", 1)
      rest == SubSeq(decoded, i + 1, Len(decoded))
      j == IndexOf(rest, ":", 1)
  IN <<SubSeq(decoded, 1, i - 1),
       IF j = -1 THEN rest ELSE SubSeq(rest, 1, j - 1)>>

\* parseAuthorization: credentials, null, or a thrown error (decodeBase64
\* throws on a word that is not base64)
parseAuthorization(request) ==
  LET authorization == request.authorization
  IN IF authorization = NoHeader THEN [tag |-> "null"]
     ELSE IF authorization[1] # "Basic" \/ Len(authorization) < 2
     THEN [tag |-> "null"]
     ELSE LET encoded == authorization[2]
          IN IF ~encoded.b64 THEN [tag |-> "throw"]
             ELSE LET decoded == encoded.text
                  IN IF IndexOf(decoded, ":", 1) = -1 THEN [tag |-> "null"]
                     ELSE LET up == Split2(decoded)
                          IN IF up[1] = <<>> \/ up[2] = <<>>
                             THEN [tag |-> "null"]
                             ELSE [tag |-> "ok", username |-> up[1],
                                   password |-> up[2]]

\* -------------------------------------------------------------------- URL

\* A URL is its hostname, port ("" when it is the scheme's default or absent)
\* and scheme; paths are carried by the requests.
DefaultPort(scheme) == IF scheme = "https" THEN "443" ELSE "80"
\* The special schemes: the protocol setter of an http(s) URL accepts these
\* and ignores every other value
SpecialSchemes == {"http", "https", "ws", "wss", "ftp"}

\* getConfig: new URL(`http://${hostname}`) with url.port = port
Local == [hostname |-> "localhost", port |-> "8000", scheme |-> "http"]

\* url.host = value.  The value is a sequence <<hostname>> or
\* <<hostname, port>>; a hostname "" stands for a value that does not parse
\* as a host, which (like the empty string) leaves the URL as it is.  A value
\* without a port leaves the URL's port as it is.
SetHost(url, value) ==
  IF value = <<>> \/ value[1] = "" THEN url
  ELSE IF Len(value) = 1 THEN [url EXCEPT !.hostname = value[1]]
  ELSE [url EXCEPT !.hostname = value[1],
                   !.port = IF value[2] = DefaultPort(url.scheme) THEN ""
                            ELSE value[2]]

\* url.protocol = value
SetProtocol(url, value) ==
  IF value \notin SpecialSchemes THEN url
  ELSE [url EXCEPT !.scheme = value,
                   !.port = IF url.port = DefaultPort(value) THEN "" ELSE @]

\* handle, lines 58-67: the URL of the request after the forwarded headers
Forwarded(via) ==
  LET u1 == IF via.xfh = NoHeader THEN via.url ELSE SetHost(via.url, via.xfh[1])
  IN IF via.xfp = NoHeader THEN u1 ELSE SetProtocol(u1, via.xfp[1])

\* handle, lines 58-77: 404 when an origin is configured and the forwarded
\* URL has another hostname or another scheme, else 0
OriginError(O, L, via) ==
  IF O = L THEN 0
  ELSE IF O.hostname # Forwarded(via).hostname
          \/ O.scheme # Forwarded(via).scheme THEN 404
  ELSE 0

\* ---------------------------------------------------------------- request

\* parseRequest: request.json() and the jsonlike shape check in a try/catch
parseRequest(body) ==
  IF ~body.json \/ ~body.shape THEN [tag |-> "null"]
  ELSE [tag |-> "ok", operation |-> body.operation, objects |-> body.objects]

\* parseVerify: request.json() and the jsonlike shape check in a try/catch
parseVerify(body) ==
  IF ~body.json \/ ~body.shape THEN [tag |-> "null"]
  ELSE [tag |-> "ok", oid |-> body.oid, size |-> body.size]

\* ------------------------------------------------------------ file system

\* #getFile: joinURL(`${repo}/${oid}`, fsRoot)
getFile(object, repo) ==
  [oid |-> object.oid, pathname |-> <<repo, object.oid, "">>,
   repo |-> repo, size |-> object.size]

TmpOf(pathname) == <<pathname[1], pathname[2], ".tmp">>

Paths == AllRepos \X Oids \X {"", ".tmp"}

\* Deno.stat / statSync: isFile && size === object.size, false on any error
AdapterCheck(D, I, file) ==
  D[file.pathname] # 0 /\ Len(I[D[file.pathname]]) = file.size

\* The content at a path, for the properties
ContentAt(D, I, pathname) ==
  IF D[pathname] = 0 THEN [exists |-> FALSE, content |-> <<>>]
  ELSE [exists |-> TRUE, content |-> I[D[pathname]]]

\* ------------------------------------------------------------ BatchServer

\* Configured credentials (GGLFS_USERNAME, GGLFS_PASSWORD)
Username == <<"u">>
Password == <<"p">>

NoKey == <<>>

\* A response, with the handler that made it and the key it was about
Response(handler, status, key) ==
  [handler |-> handler, status |-> status, key |-> key, json |-> <<>>,
   objects |-> <<>>, exists |-> <<>>, request |-> <<>>, body |-> <<>>]

\* A response of #batch, with the request and the body it answers
BatchError(status, request, raw) ==
  [Response("batch", status, NoKey) EXCEPT !.request = request, !.body = raw]

\* A response object as serialised: the stored object, or the error stanza
Render(entry, H) ==
  IF entry.ref # 0
  THEN [oid |-> H[entry.ref].oid, size |-> H[entry.ref].size,
        actions |-> H[entry.ref].actions, error |-> 0]
  ELSE [oid |-> entry.oid, size |-> entry.size, actions |-> <<>>,
        error |-> entry.error]

\* The 200 of #batch: the serialised objects, and for the properties the
\* objects requested and what each existence check returned
BatchResponse(json, H, objects, exists, request, raw) ==
  [handler |-> "batch", status |-> 200, key |-> NoKey,
   json |-> [i \in DOMAIN json |-> Render(json[i], H)],
   objects |-> objects, exists |-> exists, request |-> request, body |-> raw]

\* A .then callback that writes the error stanza at the first index
CheckThenFirst(json, i, exists, file) ==
  IF exists THEN json
  ELSE [json EXCEPT ![1] = [ref |-> 0, oid |-> file.oid, size |-> file.size,
                            error |-> 404]]

\* The .then callback of check i in #batch
CheckThen(json, i, exists, file) ==
  IF exists THEN json
  ELSE [json EXCEPT ![i] = [ref |-> 0, oid |-> file.oid, size |-> file.size,
                            error |-> 404]]

\* The checks of #batch when every one settles at once, in index order
RECURSIVE CheckAll(_, _, _, _, _, _)
CheckAll(json, i, H, repo, D, I) ==
  IF i > Len(json) THEN json
  ELSE LET file == getFile(H[json[i].ref], repo)
       IN CheckAll(CheckThen(json, i, AdapterCheck(D, I, file), file),
                   i + 1, H, repo, D, I)

\* The status #batch returns before it reads the body: 0 when it goes on
\* A credentials check that reads absent credentials as empty strings
BatchHeadEmpty(request) ==
  IF methodError(request, "POST") # 0 THEN 405
  ELSE IF acceptError(request, LFS) # 0 THEN 406
  ELSE LET credentials == parseAuthorization(request)
       IN IF credentials.tag = "throw" THEN 500
          ELSE IF credentials.tag = "null"
          THEN (IF account.username # <<>> \/ account.password # <<>>
                THEN 401 ELSE 0)
          ELSE IF credentials.username # account.username
                  \/ credentials.password # account.password THEN 401
          ELSE 0

BatchHead(request) ==
  IF methodError(request, "POST") # 0 THEN 405
  ELSE IF acceptError(request, LFS) # 0 THEN 406
  ELSE LET credentials == parseAuthorization(request)
       IN IF credentials.tag = "throw" THEN 500
          ELSE IF credentials.tag = "null" THEN 401
          ELSE IF credentials.username # account.username
                  \/ credentials.password # account.password THEN 401
          ELSE 0

\* The status #batch returns once the body is parsed: 0 when it goes on
BatchBodyStatus(body) ==
  IF body.tag = "null" THEN 422
  ELSE IF body.operation \notin {"download", "upload"} THEN 400
  ELSE 0

\* The status of #batch for a request and its body, when the store can
\* register the actions
BatchStatus(request, raw) ==
  IF BatchHead(request) # 0 THEN BatchHead(request)
  ELSE IF BatchBodyStatus(parseRequest(raw)) # 0
  THEN BatchBodyStatus(parseRequest(raw))
  ELSE 200

\* Number.prototype.toString of a non-negative integer
Digits == <<"0", "1", "2", "3", "4", "5", "6", "7", "8", "9">>
RECURSIVE toString(_)
toString(n) ==
  IF n < 10 THEN <<Digits[n + 1]>>
  ELSE Append(toString(n \div 10), Digits[(n % 10) + 1])

NoTask == [pc |-> "none"]

\* transfer.actions?.[operation]?.header?.["authorization"]
ActionHeader(transfer, operation) ==
  LET hit == {i \in DOMAIN transfer.actions :
                transfer.actions[i].op = operation}
  IN IF hit = {} THEN <<"undefined">>
     ELSE transfer.actions[CHOOSE i \in hit : TRUE].authorization

\* What a transfer handler leaves behind: the response (status 0 when the
\* handler is suspended instead), the store, the suspended task, and whether
\* get() handed it the entry (got) and the token matched (ok).
Outcome(response, S, task, got, ok) ==
  [response |-> response, S |-> S, task |-> task, got |-> got, ok |-> ok]

\* adapter.download: serveFile answers 404 for a missing file; the Node adapter
\* answers 200 before its read stream opens the file
AdapterDownload(A, D, file) ==
  IF A = "deno" THEN (IF D[file.pathname] # 0 THEN 200 ELSE 404) ELSE 200

\* A redemption that reads the entry and does not delete it
\* A redemption that deletes every key of the entry it read
RedeemEntry(S, H, key, t) ==
  LET g == StoreGet(S, H, key, t)
      gone == {k \in DOMAIN g.S.store : g.S.store[k] = g.ret} \cup {key}
  IN [ret |-> g.ret,
      S |-> [store |-> [k \in DOMAIN g.S.store \ gone |-> g.S.store[k]],
             dates |-> [k \in DOMAIN g.S.dates \ gone |-> g.S.dates[k]]]]

RedeemGetOnly(S, H, key, t) ==
  [ret |-> StoreGet(S, H, key, t).ret, S |-> StoreGet(S, H, key, t).S]

\* The store after `get(key)!` and `delete(key)`, and the entry read
Redeem(S, H, key, t) ==
  LET g == StoreGet(S, H, key, t)
  IN [ret |-> g.ret, S |-> StoreDelete(g.S, key)]

\* A #download that compares the token before it deletes the key
DownloadTokenFirst(request, repo, key, S, H, t, A, D) ==
  IF methodError(request, "GET") # 0
  THEN Outcome(Response("download", 405, key), S, NoTask, FALSE, FALSE)
  ELSE LET g == StoreGet(S, H, key, t)
       IN IF g.ret = Undefined
          THEN Outcome(Response("download", 500, key), g.S, NoTask,
                       FALSE, FALSE)
          ELSE IF request.authorization # ActionHeader(H[g.ret], "download")
          THEN Outcome(Response("download", 401, key), g.S, NoTask,
                       TRUE, FALSE)
          ELSE Outcome(Response("download",
                                AdapterDownload(A, D, getFile(H[g.ret], repo)),
                                key),
                       StoreDelete(g.S, key), NoTask, TRUE, TRUE)

\* #download; t is the time of its get()
Download(request, repo, key, S, H, t, A, D) ==
  IF methodError(request, "GET") # 0
  THEN Outcome(Response("download", 405, key), S, NoTask, FALSE, FALSE)
  ELSE LET r == Redeem(S, H, key, t)
       IN IF r.ret = Undefined
          THEN \* TypeError: transfer is undefined
               Outcome(Response("download", 500, key), r.S, NoTask,
                       FALSE, FALSE)
          ELSE IF request.authorization # ActionHeader(H[r.ret], "download")
          THEN Outcome(Response("download", 401, key), r.S, NoTask,
                       TRUE, FALSE)
          ELSE Outcome(Response("download",
                                AdapterDownload(A, D, getFile(H[r.ret], repo)),
                                key),
                       r.S, NoTask, TRUE, TRUE)

\* A check that only requires a body
UploadBodyError(request, transfer) ==
  ~request.body

\* The content-length check of #upload
UploadLengthError(request, transfer) ==
  ~request.body \/ request.contentLength # toString(transfer.size)

\* The task adapter.upload starts with: the Deno adapter awaits ensureFile, the
\* Node adapter has called createWriteStream and awaits the first read
UploadTask(A, file, key, before) ==
  [pc |-> IF A = "deno" THEN "ensure" ELSE "nopen", file |-> file, key |-> key,
   fd |-> 0, readBytes |-> 0, recv |-> <<>>, hashed |-> <<>>,
   before |-> before]

\* #upload
Upload(request, repo, key, S, H, t, A, D, I) ==
  IF methodError(request, "PUT") # 0
  THEN Outcome(Response("upload", 405, key), S, NoTask, FALSE, FALSE)
  ELSE LET r == Redeem(S, H, key, t)
       IN IF r.ret = Undefined
          THEN Outcome(Response("upload", 500, key), r.S, NoTask,
                       FALSE, FALSE)
          ELSE IF request.authorization # ActionHeader(H[r.ret], "upload")
          THEN Outcome(Response("upload", 401, key), r.S, NoTask,
                       TRUE, FALSE)
          ELSE IF UploadLengthError(request, H[r.ret])
          THEN Outcome(Response("upload", 400, key), r.S, NoTask,
                       TRUE, TRUE)
          ELSE LET file == getFile(H[r.ret], repo)
               IN Outcome(Response("upload", 0, key), r.S,
                          UploadTask(A, file, key,
                                     ContentAt(D, I, file.pathname)),
                          TRUE, TRUE)

\* #verify, to the await of parseVerify
Verify(request, repo, key, S, H, t) ==
  IF methodError(request, "POST") # 0
  THEN Outcome(Response("verify", 405, key), S, NoTask, FALSE, FALSE)
  ELSE IF acceptError(request, LFS) # 0
  THEN Outcome(Response("verify", 406, key), S, NoTask, FALSE, FALSE)
  ELSE LET r == Redeem(S, H, key, t)
       IN IF r.ret = Undefined
          THEN Outcome(Response("verify", 500, key), r.S, NoTask,
                       FALSE, FALSE)
          ELSE IF request.authorization # ActionHeader(H[r.ret], "verify")
          THEN Outcome(Response("verify", 401, key), r.S, NoTask,
                       TRUE, FALSE)
          ELSE Outcome(Response("verify", 0, key), r.S,
                       [pc |-> "verify", key |-> key,
                        file |-> getFile(H[r.ret], repo)],
                       TRUE, TRUE)

\* handle, for a path /:repo/:operation/:uuid; t1 is the time of has(key) and
\* t2 the time of the handler's get(key)
Transfer(request, S, H, t1, t2, A, D, I) ==
  LET key == <<request.operation, request.uuid>>
      h == IF validateId(request.uuid) THEN StoreHas(S, H, key, t1)
           ELSE [ret |-> FALSE, S |-> S]
  IN IF ~h.ret
     THEN Outcome(Response("handle", 404, key), h.S, NoTask, FALSE, FALSE)
     ELSE IF request.operation = "download"
     THEN Download(request, request.repo, key, h.S, H, t2, A, D)
     ELSE IF request.operation = "upload"
     THEN Upload(request, request.repo, key, h.S, H, t2, A, D, I)
     ELSE IF request.operation = "verify"
     THEN Verify(request, request.repo, key, h.S, H, t2)
     ELSE Outcome(Response("handle", 404, key), h.S, NoTask, FALSE, FALSE)

\* ----- inputs

\* Each handler is sent its own method and one other
Methods(method) == {method, IF method = "GET" THEN "POST" ELSE "GET"}
Accepts == {NoHeader, <<"*/*">>, <<LFS, "; charset=utf-8">>}
BasicHeaders ==
  {<<"Basic", Word(<<"u", ":", "p">>)>>, <<"Basic", Word(<<"u", ":", "q">>)>>,
   <<"Basic", Word(<<"u", "p">>)>>,
   <<"Basic", Word(<<"u", ":">>)>>, <<"Basic", BadWord>>, <<"Basic">>}
BearerHeaders == {<<"Bearer", Token(n)>> : n \in 1 .. MaxDraws}

BatchRequests ==
  [method : Methods("POST"), accept : Accepts,
   authorization : {NoHeader, <<"Bearer", Token(1)>>} \cup BasicHeaders,
   repo : Repos]

LFSObjects == {[oid |-> 2, size |-> 1], [oid |-> 3, size |-> 2]}
ObjectLists == UNION {[1 .. n -> LFSObjects] : n \in 1 .. MaxObjects}
BatchBodies ==
  {[json |-> FALSE, shape |-> FALSE, operation |-> "", objects |-> <<>>],
   [json |-> TRUE, shape |-> FALSE, operation |-> "", objects |-> <<>>]}
  \cup [json : {TRUE}, shape : {TRUE},
        operation : {"download", "upload"}, objects : ObjectLists]
  \cup [json : {TRUE}, shape : {TRUE}, operation : {"verify"},
        objects : {<<o>> : o \in {o \in LFSObjects : o.oid = 2}}]

Uuids == 1 .. MaxDraws
TokenHeaders == {NoHeader} \cup BearerHeaders
ContentLengths == {toString(n) : n \in Sizes}
\* A handler reads only some headers: the others are left absent here.
DownloadRequests ==
  [method : Methods("GET"), accept : {NoHeader}, authorization : TokenHeaders,
   repo : Repos, operation : {"download"}, uuid : Uuids,
   contentLength : {NoHeader}, body : {FALSE}]
UploadRequests ==
  [method : Methods("PUT"), accept : {NoHeader}, authorization : TokenHeaders,
   repo : Repos, operation : {"upload"}, uuid : Uuids,
   contentLength : ContentLengths, body : BOOLEAN]
VerifyRequests ==
  [method : Methods("POST"), accept : {NoHeader, <<LFS>>},
   authorization : TokenHeaders,
   repo : Repos, operation : {"verify"}, uuid : Uuids,
   contentLength : {NoHeader}, body : {TRUE}]
\* A path whose uuid is not a version-4 uuid, and one whose operation is none of
\* the three
OtherRequests ==
  {[method |-> "GET", accept |-> NoHeader, authorization |-> NoHeader,
    repo |-> r, operation |-> x[1], uuid |-> x[2],
    contentLength |-> NoHeader, body |-> FALSE] :
     r \in Repos, x \in {<<"download", 0>>, <<"objects", 1>>}}
TransferRequests ==
  DownloadRequests \cup UploadRequests \cup VerifyRequests \cup OtherRequests

VerifyBodies ==
  {[json |-> FALSE, shape |-> FALSE, oid |-> 0, size |-> 0],
   [json |-> TRUE, shape |-> FALSE, oid |-> 0, size |-> 0]}
  \cup {[json |-> TRUE, shape |-> TRUE, oid |-> o.oid, size |-> o.size] :
          o \in LFSObjects}

Idle == Response("none", 0, NoKey)

\* ----- actions

Suspend(t) == tasks' = tasks (+) SetToBag({t})
Resume(t, u) == tasks' = (tasks (-) SetToBag({t})) (+) SetToBag({u})
Finish(t) == tasks' = tasks (-) SetToBag({t})
Running == BagToSet(tasks)

\* handle -> #batch, to the await of parseRequest.  A request answered in this
\* segment (BatchHead) leaves no trace in the state.
HandleBatch(request) ==
  /\ IF BatchHead(request) # 0
     THEN UNCHANGED tasks
     ELSE /\ BagCardinality(tasks) < MaxTasks
          /\ Suspend([pc |-> "batch", repo |-> request.repo,
                      request |-> request])
  /\ UNCHANGED <<account, origin, adapter, now, nticks, draws, objs, store, dates, timers,
                 dir, inode, last, hist>>

\* #batch from the resumption of parseRequest
BatchBody(t, raw) ==
  LET body == parseRequest(raw)
      status == BatchBodyStatus(body)
  IN /\ t.pc = "batch"
     /\ IF status # 0
        THEN /\ last' = BatchError(status, t.request, raw)
             /\ Finish(t)
             /\ UNCHANGED <<draws, objs, store, dates, timers, hist>>
        ELSE /\ draws + DrawsOf(body.operation, body.objects) <= MaxDraws
             /\ LET R == StoreRespond(
                          [S |-> [store |-> store, dates |-> dates],
                           timers |-> timers, objs |-> objs, draws |-> draws,
                           json |-> <<>>],
                          body.operation, t.repo, body.objects, now)
                    json == [i \in DOMAIN R.json |->
                               [ref |-> R.json[i], error |-> 0]]
                IN /\ store' = R.S.store
                   /\ dates' = R.S.dates
                   /\ timers' = R.timers
                   /\ objs' = R.objs
                   /\ draws' = R.draws
                   /\ hist' = [k \in DOMAIN R.S.store \cup DOMAIN hist |->
                                IF k \in DOMAIN hist THEN hist[k]
                                ELSE [at |-> now,
                                      by |-> t.request.authorization,
                                      ref |-> R.S.store[k],
                                      got |-> 0, ok |-> 0]]
                   /\ IF body.operation # "download"
                      THEN /\ last' = BatchResponse(json, R.objs,
                                                    body.objects, <<>>,
                                                    t.request, raw)
                           /\ Finish(t)
                      ELSE IF adapter = "node"
                      THEN \* statSync runs inside the call of check
                           /\ last' = BatchResponse(
                                CheckAll(json, 1, R.objs, t.repo, dir, inode),
                                R.objs, body.objects,
                                [i \in DOMAIN json |-> AdapterCheck(dir, inode,
                                   getFile(R.objs[json[i].ref], t.repo))],
                                t.request, raw)
                           /\ Finish(t)
                      ELSE /\ Resume(t, [pc |-> "checks", repo |-> t.repo,
                                         request |-> t.request,
                                         raw |-> raw,
                                         json |-> json,
                                         objects |-> body.objects,
                                         files |-> [i \in DOMAIN json |->
                                            getFile(R.objs[json[i].ref],
                                                    t.repo)],
                                         pending |-> DOMAIN json,
                                         exists |-> [i \in DOMAIN json |->
                                                       FALSE]])
                           /\ UNCHANGED last
     /\ UNCHANGED <<account, origin, adapter, now, nticks, dir, inode>>

\* One Deno.stat of #batch settles and its .then callback runs; after the last
\* one Promise.all resolves and #batch returns
CheckDone(t, i) ==
  /\ t.pc = "checks"
  /\ i \in t.pending
  /\ LET exists == AdapterCheck(dir, inode, t.files[i])
         u == [t EXCEPT !.json = CheckThen(t.json, i, exists, t.files[i]),
                        !.pending = @ \ {i},
                        !.exists[i] = exists]
     IN IF u.pending = {}
        THEN /\ last' = BatchResponse(u.json, objs, u.objects, u.exists,
                                      u.request, u.raw)
             /\ Finish(t)
        ELSE /\ Resume(t, u)
             /\ UNCHANGED last
  /\ UNCHANGED <<account, origin, adapter, now, nticks, draws, objs, store, dates, timers,
                 dir, inode, hist>>

\* The clock is observed at these instants: one millisecond before the expiry
\* of what was stored at time 0, then millisecond by millisecond.
TickStep(n) == IF n = 0 THEN EXPIRES_IN * 1000 - 1 ELSE 1

\* handle, for a transfer path, through the handler's first segment; the clock
\* reads d milliseconds more at the handler's get() than at handle's has()
HandleTransfer(request, d) ==
  LET key == <<request.operation, request.uuid>>
      o == Transfer(request, [store |-> store, dates |-> dates], objs,
                    now, now + d, adapter, dir, inode)
  IN /\ d = 1 => /\ nticks < MaxTicks
                 /\ TickStep(nticks) = 1
                 /\ key \in DOMAIN store
     /\ now' = now + d
     /\ nticks' = nticks + d
     /\ store' = o.S.store
     /\ dates' = o.S.dates
     /\ IF o.task.pc = "none"
        THEN UNCHANGED tasks
        ELSE /\ BagCardinality(tasks) < MaxTasks
             /\ Suspend(o.task)
     /\ hist' = IF o.got
                THEN [hist EXCEPT ![key].got = @ + 1,
                                  ![key].ok = @ + (IF o.ok THEN 1 ELSE 0)]
                ELSE hist
     /\ UNCHANGED <<account, origin, adapter, draws, objs, timers, dir, inode, last>>

\* A verify that looks for the object its body names
VerifyFileOfBody(t, raw) == getFile(parseVerify(raw), t.file.repo)

\* The file #verify hands to adapter.check: #getFile(transfer, repo), whatever
\* the parsed body says
VerifyFile(t, raw) == t.file

\* #verify from the resumption of parseVerify
VerifyBody(t, raw) ==
  /\ t.pc = "verify"
  /\ IF parseVerify(raw).tag = "null"
     THEN /\ last' = [Response("verify", 422, t.key) EXCEPT !.body = raw]
          /\ Finish(t)
     ELSE IF adapter = "node"
     THEN \* statSync runs inside the call of check
          /\ last' = [Response("verify",
                 IF AdapterCheck(dir, inode, VerifyFile(t, raw)) THEN 200
                 ELSE 404,
                 t.key) EXCEPT !.body = raw]
          /\ Finish(t)
     ELSE /\ Resume(t, [pc |-> "vcheck", key |-> t.key,
                        file |-> VerifyFile(t, raw), body |-> raw])
          /\ UNCHANGED last
  /\ UNCHANGED <<account, origin, adapter, now, nticks, draws, objs, store, dates, timers,
                 dir, inode, hist>>

\* #verify from the resumption of adapter.check (Deno.stat)
VerifyCheck(t) ==
  /\ t.pc = "vcheck"
  /\ last' = [Response("verify",
                 IF AdapterCheck(dir, inode, t.file) THEN 200 ELSE 404,
                 t.key) EXCEPT !.body = t.body]
  /\ Finish(t)
  /\ UNCHANGED <<account, origin, adapter, now, nticks, draws, objs, store, dates, timers,
                 dir, inode, hist>>

\* ----- adapter.upload

\* A write of bytes at an offset of a file's content (holes read as 0)
WriteAt(content, off, bytes) ==
  [i \in 1 .. (IF off + Len(bytes) > Len(content) THEN off + Len(bytes)
                ELSE Len(content)) |->
     IF i > off /\ i <= off + Len(bytes) THEN bytes[i - off]
     ELSE IF i <= Len(content) THEN content[i] ELSE 0]

\* The TransformStream of DenoAdapter.upload: what it enqueues for a chunk
Transform(chunk, readBytes, size) ==
  IF readBytes >= size THEN <<>>
  ELSE SubSeq(chunk, 1, IF size - readBytes < Len(chunk)
                        THEN size - readBytes ELSE Len(chunk))

\* await ensureFile(tmp)
DenoEnsure(t) ==
  /\ t.pc = "ensure"
  /\ LET tmp == TmpOf(t.file.pathname)
     IN IF dir[tmp] = 0
        THEN /\ inode' = Append(inode, <<>>)
             /\ dir' = [dir EXCEPT ![tmp] = Len(inode) + 1]
        ELSE UNCHANGED <<dir, inode>>
  /\ Resume(t, [t EXCEPT !.pc = "open"])
  /\ UNCHANGED <<account, origin, adapter, now, nticks, draws, objs, store, dates, timers,
                 last, hist>>

\* await Deno.open(tmp, {create, truncate, write})
DenoOpen(t) ==
  /\ t.pc = "open"
  /\ LET tmp == TmpOf(t.file.pathname)
     IN IF dir[tmp] = 0
        THEN /\ inode' = Append(inode, <<>>)
             /\ dir' = [dir EXCEPT ![tmp] = Len(inode) + 1]
             /\ Resume(t, [t EXCEPT !.pc = "stream", !.fd = Len(inode) + 1])
        ELSE /\ inode' = [inode EXCEPT ![dir[tmp]] = <<>>]
             /\ UNCHANGED dir
             /\ Resume(t, [t EXCEPT !.pc = "stream", !.fd = dir[tmp]])
  /\ UNCHANGED <<account, origin, adapter, now, nticks, draws, objs, store, dates, timers,
                 last, hist>>

\* One chunk of the body through the transform, the hash and the file.  The
\* HTTP layer delivers no more than content-length bytes, and #upload has
\* checked that content-length is the declared size.
DenoChunk(t, chunk) ==
  /\ t.pc = "stream"
  /\ Len(t.recv) + Len(chunk) <= t.file.size
  /\ LET out == Transform(chunk, t.readBytes, t.file.size)
     IN /\ inode' = [inode EXCEPT ![t.fd] = WriteAt(@, Len(t.hashed), out)]
        /\ Resume(t, [t EXCEPT !.recv = @ \o chunk, !.hashed = @ \o out,
                               !.readBytes = @ + Len(chunk)])
  /\ UNCHANGED <<account, origin, adapter, now, nticks, draws, objs, store, dates, timers,
                 dir, last, hist>>

\* The body ends (all content-length bytes have arrived): both consumers
\* finish, the hash is compared, and Deno.rename or Deno.remove runs.  The
\* comparison reads only the handler's own data, so it is taken together with
\* the file system call that follows its await.
DenoEnd(t) ==
  /\ t.pc = "stream"
  /\ Len(t.recv) = t.file.size
  /\ LET tmp == TmpOf(t.file.pathname)
     IN IF dir[tmp] = 0
        THEN \* Deno.rename / Deno.remove reject with NotFound
             /\ last' = Response("upload", 500, t.key)
             /\ UNCHANGED dir
        ELSE IF SHA256(t.hashed) = t.file.oid
        THEN /\ dir' = [dir EXCEPT ![t.file.pathname] = dir[tmp], ![tmp] = 0]
             /\ last' = Response("upload", 200, t.key)
        ELSE /\ dir' = [dir EXCEPT ![tmp] = 0]
             /\ last' = Response("upload", 422, t.key)
  /\ Finish(t)
  /\ UNCHANGED <<account, origin, adapter, now, nticks, draws, objs, store, dates, timers,
                 inode, hist>>

\* The body stream errors (the client disconnects): Promise.all rejects and
\* upload throws; nothing after the await runs
DenoAbort(t) ==
  /\ t.pc = "stream"
  /\ last' = Response("upload", 500, t.key)
  /\ Finish(t)
  /\ UNCHANGED <<account, origin, adapter, now, nticks, draws, objs, store, dates, timers,
                 dir, inode, hist>>

\* createWriteStream(object.pathname) opens the file: flags "w"
NodeOpen(t) ==
  /\ t.pc = "nopen"
  /\ LET p == t.file.pathname
     IN IF dir[p] = 0
        THEN /\ inode' = Append(inode, <<>>)
             /\ dir' = [dir EXCEPT ![p] = Len(inode) + 1]
             /\ Resume(t, [t EXCEPT !.pc = "nstream", !.fd = Len(inode) + 1])
        ELSE /\ inode' = [inode EXCEPT ![dir[p]] = <<>>]
             /\ UNCHANGED dir
             /\ Resume(t, [t EXCEPT !.pc = "nstream", !.fd = dir[p]])
  /\ UNCHANGED <<account, origin, adapter, now, nticks, draws, objs, store, dates, timers,
                 last, hist>>

\* reader.read() yields a chunk: stream.write(result.value)
NodeChunk(t, chunk) ==
  /\ t.pc = "nstream"
  /\ Len(t.recv) + Len(chunk) <= t.file.size
  /\ inode' = [inode EXCEPT ![t.fd] = WriteAt(@, Len(t.recv), chunk)]
  /\ Resume(t, [t EXCEPT !.recv = @ \o chunk, !.hashed = @ \o chunk,
                         !.readBytes = @ + Len(chunk)])
  /\ UNCHANGED <<account, origin, adapter, now, nticks, draws, objs, store, dates, timers,
                 dir, last, hist>>

\* reader.read() yields done: stream.end() and the 200
NodeEnd(t) ==
  /\ t.pc = "nstream"
  /\ Len(t.recv) = t.file.size
  /\ last' = Response("upload", 200, t.key)
  /\ Finish(t)
  /\ UNCHANGED <<account, origin, adapter, now, nticks, draws, objs, store, dates, timers,
                 dir, inode, hist>>

\* reader.read() rejects (the client disconnects): upload throws
NodeAbort(t) ==
  /\ t.pc = "nstream"
  /\ last' = Response("upload", 500, t.key)
  /\ Finish(t)
  /\ UNCHANGED <<account, origin, adapter, now, nticks, draws, objs, store, dates, timers,
                 dir, inode, hist>>

Chunks == Contents \ {<<>>}

\* ----- time

Tick ==
  /\ nticks < MaxTicks
  /\ now' = now + TickStep(nticks)
  /\ nticks' = nticks + 1
  /\ UNCHANGED <<account, origin, adapter, draws, objs, store, dates, timers, dir, inode,
                 tasks, last, hist>>

\* The setTimeout callback of set: () => this.delete(key)
TimerFire(timer) ==
  /\ timer \in timers
  /\ now >= timer.due
  /\ timers' = timers \ {timer}
  /\ LET S == StoreDelete([store |-> store, dates |-> dates], timer.key)
     IN store' = S.store /\ dates' = S.dates
  /\ UNCHANGED <<account, origin, adapter, now, nticks, draws, objs, dir, inode, tasks, last,
                 hist>>

\* ----- the system

\* The storage root at startup: object 2 is stored (inode 1), object 3 is not.
InitialFiles ==
  [p \in Paths |-> IF p[1] \in Repos /\ p[2] = 2 /\ p[3] = "" THEN 1 ELSE 0]

\* The state after construction, whatever the configuration
Started ==
  /\ adapter \in {"deno", "node"}
  /\ now = 0
  /\ nticks = 0
  /\ draws = 0
  /\ objs = <<>>
  /\ store = <<>>
  /\ dates = <<>>
  /\ timers = {}
  /\ dir = InitialFiles
  /\ inode = <<<<2>>>>
  /\ tasks = EmptyBag
  /\ last = Idle
  /\ hist = <<>>

\* No GGLFS_ORIGIN: options.origin is undefined and #origin is the local URL
Init ==
  /\ Started
  /\ origin = Local
  /\ account = [username |-> Username, password |-> Password]

Next ==
  \/ \E request \in BatchRequests : HandleBatch(request)
  \/ \E t \in Running : \E raw \in BatchBodies : BatchBody(t, raw)
  \/ \E t \in Running : \E i \in 1 .. MaxObjects : CheckDone(t, i)
  \/ \E request \in TransferRequests : \E d \in {0, 1} :
       HandleTransfer(request, d)
  \/ \E t \in Running : \E raw \in VerifyBodies : VerifyBody(t, raw)
  \/ \E t \in Running : VerifyCheck(t)
  \/ \E t \in Running : DenoEnsure(t)
  \/ \E t \in Running : DenoOpen(t)
  \/ \E t \in Running : \E chunk \in Chunks : DenoChunk(t, chunk)
  \/ \E t \in Running : DenoEnd(t)
  \/ \E t \in Running : DenoAbort(t)
  \/ \E t \in Running : NodeOpen(t)
  \/ \E t \in Running : \E chunk \in Chunks : NodeChunk(t, chunk)
  \/ \E t \in Running : NodeEnd(t)
  \/ \E t \in Running : NodeAbort(t)
  \/ Tick
  \/ \E timer \in timers : TimerFire(timer)

Spec == Init /\ [][Next]_vars

\* ------------------------------------------- specification: authorization

\* The batch route under every short authorization header.  The decoded
\* payloads are the texts over AuthChars of at most MaxPayload characters.

\* Longest decoded Basic payload.
MaxPayload == 4
AuthChars == {"u", "p", ":"}
Payloads == UNION {[1 .. n -> AuthChars] : n \in 0 .. MaxPayload}
AuthHeaders ==
  {NoHeader, <<"Basic">>, <<"Basic", BadWord>>, <<"Bearer", Token(1)>>,
   <<"basic", Word(Username \o <<":">> \o Password)>>,
   <<"Basic", Word(<<"U", ":", "p">>)>>}
    \cup {<<"Basic", Word(text)>> : text \in Payloads \ {<<>>}}
AuthRequests ==
  [method : {"POST"}, accept : {<<LFS>>}, authorization : AuthHeaders,
   repo : Repos]
AuthBodies ==
  {raw \in BatchBodies : raw.json /\ Len(raw.objects) <= 1}

\* A call of parseAuthorization(request); the value it returns, or the error it
\* throws, is kept in last.body
ParseAuthorization(request) ==
  /\ last' = [Response("parseAuthorization", 0, NoKey) EXCEPT
                !.request = request, !.body = parseAuthorization(request)]
  /\ UNCHANGED <<account, origin, adapter, now, nticks, draws, objs, store, dates, timers,
                 dir, inode, tasks, hist>>

NextAuth ==
  \/ \E request \in AuthRequests : ParseAuthorization(request)
  \/ \E request \in AuthRequests : HandleBatch(request)
  \/ \E t \in Running : \E raw \in AuthBodies : BatchBody(t, raw)
  \/ \E t \in Running : \E i \in 1 .. MaxObjects : CheckDone(t, i)

SpecAuth == Init /\ [][NextAuth]_vars

\* ------------------------------------------------------------- properties

\* The responses answered within a handler's first segment are values of
\* Transfer and BatchStatus in the state the request arrives in; the
\* properties about them range over every request that can arrive in a
\* reachable state.

KeyOf(request) == <<request.operation, request.uuid>>

\* The clock may or may not advance between has() and get()
Delays == {0, 1}

\* What handle answers to a request arriving now
Answer(request, d) ==
  Transfer(request, [store |-> store, dates |-> dates], objs, now, now + d,
           adapter, dir, inode)

\* The requests to a key that carry the token issued with it
Authorized(k) ==
  {request \in TransferRequests :
     /\ KeyOf(request) = k
     /\ request.authorization = <<"Bearer", Token(k[2])>>}

\* The suspended transfer handlers (each holds the key it redeemed)
InFlight == {t \in Running : t.pc \notin {"batch", "checks"}}

\* C1 (single use): once a request to an issued key has been handled by its
\* handler with the matching token, every request to the path of that key,
\* whatever its method, token, length or body, is answered 404 by handle and
\* no handler runs.
C1_SingleUse ==
  \A request \in TransferRequests : \A d \in Delays :
    (KeyOf(request) \in DOMAIN hist /\ hist[KeyOf(request)].ok >= 1)
      => /\ Answer(request, d).response
              = Response("handle", 404, KeyOf(request))
         /\ Answer(request, d).task = NoTask

\* A key has been redeemed with its token, and the same request repeated with
\* that token is answered 404.
C1_Repeated ==
  \E k \in DOMAIN hist : \E request \in Authorized(k) :
    /\ hist[k].ok = 1
    /\ methodError(request, IF k[1] = "download" THEN "GET"
                            ELSE IF k[1] = "upload" THEN "PUT" ELSE "POST") = 0
    /\ Answer(request, 0).response.status = 404

\* C2 (atomic redemption): get() hands the entry of a key out at most once; from
\* then on, also while the request that obtained it is suspended at an await,
\* the key is absent and every other request to it is answered 404 by handle
\* without reading the entry; at most one suspended handler holds the key.
C2_AtomicRedemption ==
  /\ \A k \in DOMAIN hist :
       /\ hist[k].got <= 1
       /\ hist[k].got = 1 =>
            /\ k \notin DOMAIN store
            /\ \A request \in TransferRequests : \A d \in Delays :
                 KeyOf(request) = k =>
                   /\ Answer(request, d).response.handler = "handle"
                   /\ Answer(request, d).response.status = 404
                   /\ ~Answer(request, d).got
  /\ \A t \in InFlight :
       /\ CopiesIn(t, tasks) = 1
       /\ hist[t.key].got = 1
       /\ \A u \in InFlight : u.key = t.key => u = t

\* A handler that redeemed a key is suspended, and a second request to the same
\* key with the right token is answered 404.
C2_SecondInFlight ==
  \E t \in InFlight : \E request \in Authorized(t.key) :
    /\ t.pc \in {"stream", "nstream", "vcheck"}
    /\ Answer(request, 0).response.status = 404

\* C3 (expiry): a key that was never handed out is answered 404 by handle on
\* every request made 3600 s or more after its registration, whether or not its
\* timer has fired; a request made before that is routed to the handler of its
\* operation.
C3_Expiry ==
  \A request \in TransferRequests : \A d \in Delays :
    (KeyOf(request) \in DOMAIN hist /\ hist[KeyOf(request)].got = 0) =>
      IF now - hist[KeyOf(request)].at >= EXPIRES_IN * 1000
      THEN Answer(request, d).response
             = Response("handle", 404, KeyOf(request))
      ELSE Answer(request, d).response.handler = request.operation

\* A key registered 3600 s ago is still in the store with its timer pending, no
\* request has touched it, and a request with its token is answered 404.
C3_ExpiredUntouched ==
  \E k \in DOMAIN store : \E request \in Authorized(k) :
    /\ hist[k].got = 0
    /\ now - hist[k].at >= EXPIRES_IN * 1000
    /\ \E timer \in timers : timer.key = k
    /\ Answer(request, 0).response.status = 404

\* respond applied to a batch body in the current state
Responded(operation, objects) ==
  StoreRespond([S |-> [store |-> store, dates |-> dates], timers |-> timers,
                objs |-> objs, draws |-> draws, json |-> <<>>],
               operation, "repo", objects, now)

\* The keys of the actions of a stored object, by operation
ActionKeys(object, operation) ==
  {object.actions[j].href.key :
     j \in {j \in DOMAIN object.actions : object.actions[j].op = operation}}

\* The operations of the actions an object carries
ActionOps(object) == {object.actions[j].op : j \in DOMAIN object.actions}

\* The keys of store R.S under which the object with reference ref is entered
KeysOf(R, ref) == {k \in DOMAIN R.S.store : R.S.store[k] = ref}

\* C4 (paired verify): respond for operation "upload" gives every object an
\* upload and a verify action and nothing else, registers them under two
\* distinct keys upload/.. and verify/.., and the entries under both keys hold
\* the oid and size requested; for "download" the object has one download
\* action and exactly one key is registered for it.
C4_PairedVerify ==
  \A objects \in ObjectLists :
    LET U == Responded("upload", objects)
        G == Responded("download", objects)
    IN /\ Len(U.json) = Len(objects)
       /\ Len(G.json) = Len(objects)
       /\ \A i \in DOMAIN objects :
            LET u == U.objs[U.json[i]]
                g == G.objs[G.json[i]]
            IN /\ Len(u.actions) = 2
               /\ ActionOps(u) = {"upload", "verify"}
               /\ \E k1 \in ActionKeys(u, "upload") :
                  \E k2 \in ActionKeys(u, "verify") :
                    /\ k1[1] = "upload" /\ k2[1] = "verify" /\ k1 # k2
                    /\ KeysOf(U, U.json[i]) = {k1, k2}
                    /\ \A k \in {k1, k2} :
                         /\ U.objs[U.S.store[k]].oid = objects[i].oid
                         /\ U.objs[U.S.store[k]].size = objects[i].size
               /\ Len(g.actions) = 1
               /\ ActionOps(g) = {"download"}
               /\ \E k1 \in ActionKeys(g, "download") :
                    /\ KeysOf(G, G.json[i]) = {k1}
                    /\ G.objs[G.S.store[k1]].oid = objects[i].oid
                    /\ G.objs[G.S.store[k1]].size = objects[i].size

\* An upload batch has been answered: its object carries two actions whose
\* keys are in the store and lead to one entry with the requested oid and size.
C4_UploadAnswered ==
  /\ last.handler = "batch" /\ last.status = 200
  /\ last.json # <<>>
  /\ Len(last.json[1].actions) = 2
  /\ \A j \in 1 .. 2 :
       /\ last.json[1].actions[j].href.key \in DOMAIN store
       /\ objs[store[last.json[1].actions[j].href.key]].oid
            = last.objects[1].oid
       /\ objs[store[last.json[1].actions[j].href.key]].size
            = last.objects[1].size

\* The actions of a response, as <<object index, action index>>
Positions(R) ==
  {p \in (DOMAIN R.json) \X (1 .. 2) : p[2] <= Len(R.objs[R.json[p[1]]].actions)}

KeyAt(R, p) == R.objs[R.json[p[1]]].actions[p[2]].href.key

\* C5 (key uniqueness): the keys of all actions of one response, verify keys
\* and repeated oids included, are pairwise distinct, and after respond every
\* one of them still leads to the entry of its own object.
C5_KeyUniqueness ==
  \A operation \in {"download", "upload"} : \A objects \in ObjectLists :
    LET R == Responded(operation, objects)
    IN /\ \A p \in Positions(R) : \A q \in Positions(R) :
            p # q => KeyAt(R, p) # KeyAt(R, q)
       /\ \A p \in Positions(R) :
            /\ KeyAt(R, p) \in DOMAIN R.S.store
            /\ R.S.store[KeyAt(R, p)] = R.json[p[1]]

\* A batch that names the same oid twice has been answered with two actions
\* under two different keys, both registered.
C5_RepeatedOid ==
  /\ last.handler = "batch" /\ last.status = 200
  /\ Len(last.objects) = 2 /\ last.objects[1] = last.objects[2]
  /\ last.json[1].actions # <<>> /\ last.json[2].actions # <<>>
  /\ last.json[1].actions[1].href.key # last.json[2].actions[1].href.key
  /\ {last.json[1].actions[1].href.key, last.json[2].actions[1].href.key}
       \subseteq DOMAIN store

\* C6 (per-object download errors): the 200 of a download batch lists the
\* requested objects in request order; object i is the error stanza with code
\* 404 and no actions exactly when check i returned false, and has its download
\* action exactly when check i returned true.
C6_PerObjectErrors ==
  (last.handler = "batch" /\ last.status = 200 /\ last.exists # <<>>) =>
    /\ Len(last.json) = Len(last.objects)
    /\ Len(last.exists) = Len(last.objects)
    /\ \A i \in DOMAIN last.objects :
         /\ last.json[i].oid = last.objects[i].oid
         /\ last.json[i].size = last.objects[i].size
         /\ IF last.exists[i]
            THEN /\ last.json[i].error = 0
                 /\ Len(last.json[i].actions) = 1
                 /\ last.json[i].actions[1].op = "download"
            ELSE /\ last.json[i].error = 404
                 /\ last.json[i].actions = <<>>

\* The Deno adapter has answered a download batch of two objects whose first
\* check returned false and whose second returned true.
C6_MixedChecks ==
  /\ adapter = "deno"
  /\ last.handler = "batch" /\ last.status = 200
  /\ last.exists = <<FALSE, TRUE>>
  /\ last.json[1].error = 404
  /\ last.json[2].actions # <<>>

\* The PUT requests to a live upload key with its token whose content-length
\* is not the decimal rendering of the declared size, or that have no body
BadLength(d) ==
  {request \in UploadRequests :
     /\ request.method = "PUT"
     /\ KeyOf(request) \in DOMAIN store
     /\ now + d - dates[KeyOf(request)] < EXPIRES_IN * 1000
     /\ request.authorization
          = ActionHeader(objs[store[KeyOf(request)]], "upload")
     /\ \/ ~request.body
        \/ request.contentLength
             # toString(objs[store[KeyOf(request)]].size)}

\* C7 (upload length check): such a request is answered 400 by #upload and no
\* adapter upload is started for it.
C7_UploadLength ==
  \A d \in Delays : \A request \in BadLength(d) :
    /\ Answer(request, d).response = Response("upload", 400, KeyOf(request))
    /\ Answer(request, d).task = NoTask

\* A PUT with a body and the right token but the wrong content-length arrives
\* at a live upload key and is answered 400.
C7_WrongLength ==
  \E request \in BadLength(0) :
    /\ request.body
    /\ request.contentLength # NoHeader
    /\ Answer(request, 0).response.status = 400

\* C8 (digest mismatch): when an upload completes and the digest of the bytes
\* received differs from the declared oid, the answer is 422, the content at
\* the canonical path is what it was before the upload, and no temporary
\* file is left, for the Deno adapter and for the Node/Bun adapter.
C8_DigestMismatch ==
  [][\A t \in Running :
       ((DenoEnd(t) \/ NodeEnd(t)) /\ SHA256(t.recv) # t.file.oid) =>
         /\ last'.status = 422
         /\ ContentAt(dir', inode', t.file.pathname) = t.before
         /\ dir'[TmpOf(t.file.pathname)] = 0]_vars

\* C9 (interrupted upload): when the body stream of an upload fails, the
\* canonical path holds what it held before the upload and the temporary file
\* is gone.
C9_Interrupted ==
  [][\A t \in Running :
       (DenoAbort(t) \/ NodeAbort(t)) =>
         /\ ContentAt(dir', inode', t.file.pathname) = t.before
         /\ dir'[TmpOf(t.file.pathname)] = 0]_vars

\* The first of the five checks of the batch endpoint that fails, in the order
\* method, accept, credentials, body shape, operation; 200 when none does
FirstFailing(request, raw) ==
  IF request.method # "POST" THEN 405
  ELSE IF request.accept = NoHeader
          \/ \A i \in DOMAIN request.accept : request.accept[i] # LFS THEN 406
  ELSE IF request.authorization
            # <<"Basic", Word(Username \o <<":">> \o Password)>> THEN 401
  ELSE IF ~raw.json \/ ~raw.shape THEN 422
  ELSE IF raw.operation \notin {"download", "upload"} THEN 400
  ELSE 200

\* C10 (batch check priority): every request to the batch endpoint is answered
\* with the status of the first failing check in the order 405, 406, 401, 422,
\* 400, and with 200 when all five pass.
C10_BatchPriority ==
  /\ \A request \in BatchRequests : \A raw \in BatchBodies :
       BatchStatus(request, raw) = FirstFailing(request, raw)
  /\ last.handler = "batch" =>
       last.status = FirstFailing(last.request, last.body)

\* ------------------------------------------------- specification: origin

\* The server behind a reverse proxy.  A request arrives with the URL the
\* runtime built from its Host header (always http: the server has no TLS) and
\* with or without the forwarded headers.

Origins ==
  {[hostname |-> "lfs", port |-> "", scheme |-> "https"],
   [hostname |-> "lfs", port |-> "", scheme |-> "http"]}
Vias ==
  [url : {Local, [hostname |-> "lfs", port |-> "", scheme |-> "http"]},
   xfh : {NoHeader, <<<<"lfs">>>>, <<<<"lfs", "8443">>>>, <<<<"evil">>>>},
   xfp : {NoHeader, <<"https">>, <<"https, http">>}]
OriginBodies ==
  {raw \in AuthBodies : raw.operation = "download"}
OriginBatchRequests ==
  [method : {"POST"}, accept : {<<LFS>>},
   authorization : {NoHeader, <<"Basic", Word(Username \o <<":">> \o Password)>>},
   repo : Repos]

InitOrigin ==
  /\ Started
  /\ origin \in Origins
  /\ account = [username |-> Username, password |-> Password]

\* handle for a request of the batch route; the request keeps how it arrived
OriginBatch(via, request) ==
  /\ OriginError(origin, Local, via) = 0
  /\ HandleBatch([method |-> request.method, accept |-> request.accept,
                  authorization |-> request.authorization,
                  repo |-> request.repo, via |-> via])

\* handle for a request of a transfer route
OriginTransfer(via, request) ==
  /\ OriginError(origin, Local, via) = 0
  /\ HandleTransfer(request, 0)

\* handle, line 74: the 404 of the origin check
OriginReject(via) ==
  /\ OriginError(origin, Local, via) # 0
  /\ last' = Response("handle", OriginError(origin, Local, via), NoKey)
  /\ UNCHANGED <<account, origin, adapter, now, nticks, draws, objs, store, dates,
                 timers, dir, inode, tasks, hist>>

NextOrigin ==
  \/ \E via \in Vias : \E request \in OriginBatchRequests :
       OriginBatch(via, request)
  \/ \E via \in Vias : \E request \in DownloadRequests :
       OriginTransfer(via, request)
  \/ \E via \in Vias : OriginReject(via)
  \/ \E t \in Running : \E raw \in OriginBodies : BatchBody(t, raw)
  \/ \E t \in Running : \E i \in 1 .. MaxObjects : CheckDone(t, i)

SpecOrigin == InitOrigin /\ [][NextOrigin]_vars

\* ------------------------------------------------ specification: timers

\* The store left to itself.  Time passes until the next scheduled removal is
\* due, and the event loop runs every callback that is due.

LiveRequests ==
  [method : {"POST"}, accept : {<<LFS>>},
   authorization : {NoHeader, <<"Basic", Word(Username \o <<":">> \o Password)>>},
   repo : Repos]

\* The clock reaches the time at which the next pending timer is due
Advance ==
  /\ \E timer \in timers :
       /\ timer.due > now
       /\ \A other \in timers : other.due > now => timer.due <= other.due
       /\ now' = timer.due
  /\ UNCHANGED <<account, origin, adapter, nticks, draws, objs, store, dates, timers,
                 dir, inode, tasks, last, hist>>

NextLive ==
  \/ \E request \in LiveRequests : HandleBatch(request)
  \/ \E t \in Running : \E raw \in AuthBodies : BatchBody(t, raw)
  \/ \E t \in Running : \E i \in 1 .. MaxObjects : CheckDone(t, i)
  \/ \E request \in DownloadRequests : \E d \in {0, 1} :
       HandleTransfer(request, d)
  \/ Tick
  \/ Advance
  \/ \E timer \in timers : TimerFire(timer)

\* setTimeout: a callback that is due is run, and time does not stop
SpecLive ==
  /\ Init
  /\ [][NextLive]_vars
  /\ WF_vars(Advance)
  /\ WF_vars(\E timer \in timers : TimerFire(timer))

\* -------------------------------------------------- specification: repos

\* Two repos under one storage root.  Batches are sent to either repo; each
\* issued href is then requested under either repo's path, with the issued
\* token and the handler's method.

RepoBatchRequests ==
  [method : {"POST"}, accept : {<<LFS>>},
   authorization : {<<"Basic", Word(Username \o <<":">> \o Password)>>},
   repo : AllRepos]
RepoBodies ==
  {raw \in AuthBodies : raw.shape /\ raw.operation \in {"download", "upload"}}
RepoRequests ==
  {[method |-> IF operation = "download" THEN "GET"
               ELSE IF operation = "upload" THEN "PUT" ELSE "POST",
    accept |-> IF operation = "verify" THEN <<LFS>> ELSE NoHeader,
    authorization |-> <<"Bearer", Token(uuid)>>,
    repo |-> repo, operation |-> operation, uuid |-> uuid,
    contentLength |-> IF operation = "upload" THEN length ELSE NoHeader,
    body |-> operation # "download"] :
     repo \in AllRepos, operation \in {"download", "upload", "verify"},
     uuid \in Uuids, length \in ContentLengths}

NextRepo ==
  \/ \E request \in RepoBatchRequests : HandleBatch(request)
  \/ \E t \in Running : \E raw \in RepoBodies : BatchBody(t, raw)
  \/ \E t \in Running : \E i \in 1 .. MaxObjects : CheckDone(t, i)
  \/ \E request \in RepoRequests : HandleTransfer(request, 0)
  \/ \E t \in Running : \E raw \in VerifyBodies : VerifyBody(t, raw)
  \/ \E t \in Running : VerifyCheck(t)
  \/ \E t \in Running : DenoEnsure(t)
  \/ \E t \in Running : DenoOpen(t)
  \/ \E t \in Running : \E chunk \in Chunks : DenoChunk(t, chunk)
  \/ \E t \in Running : DenoEnd(t)
  \/ \E t \in Running : NodeOpen(t)
  \/ \E t \in Running : \E chunk \in Chunks : NodeChunk(t, chunk)
  \/ \E t \in Running : NodeEnd(t)

SpecRepo == Init /\ [][NextRepo]_vars

\* ------------------------------------------------ specification: uploads

\* Two uploads of one object at the same time, Deno adapter.  The run starts
\* when an upload batch that names the same object twice has been answered:
\* the store holds two upload keys (and their verify keys) for one pathname.

\* Upload handlers suspended in adapter.upload at the same time.
MaxUploads == 2

TwiceRequest ==
  [method |-> "POST", accept |-> <<LFS>>,
   authorization |-> <<"Basic", Word(Username \o <<":">> \o Password)>>,
   repo |-> "repo"]
TwiceBody(o) ==
  [json |-> TRUE, shape |-> TRUE, operation |-> "upload", objects |-> <<o, o>>]
\* store.respond for that batch, on the empty store at time 0
Twice(o) ==
  StoreRespond([S |-> [store |-> <<>>, dates |-> <<>>], timers |-> {},
                objs |-> <<>>, draws |-> 0, json |-> <<>>],
               "upload", "repo", <<o, o>>, 0)

InitUploads ==
  /\ origin = Local
  /\ account = [username |-> Username, password |-> Password]
  /\ adapter = "deno"
  /\ now = 0
  /\ nticks = 0
  /\ dir = InitialFiles
  /\ inode = <<<<2>>>>
  /\ tasks = EmptyBag
  /\ \E o \in LFSObjects :
       /\ draws = Twice(o).draws
       /\ objs = Twice(o).objs
       /\ store = Twice(o).S.store
       /\ dates = Twice(o).S.dates
       /\ timers = Twice(o).timers
       /\ hist = [k \in DOMAIN Twice(o).S.store |->
                    [at |-> 0, by |-> TwiceRequest.authorization,
                     ref |-> Twice(o).S.store[k], got |-> 0, ok |-> 0]]
       /\ last = BatchResponse([i \in 1 .. 2 |->
                                  [ref |-> Twice(o).json[i], error |-> 0]],
                               Twice(o).objs, <<o, o>>, <<>>, TwiceRequest,
                               TwiceBody(o))

\* The PUT requests to the issued upload hrefs, with the issued token and the
\* declared length
TwicePuts ==
  {[method |-> "PUT", accept |-> NoHeader,
    authorization |-> ActionHeader(objs[store[k]], "upload"),
    repo |-> "repo", operation |-> "upload", uuid |-> k[2],
    contentLength |-> toString(objs[store[k]].size), body |-> TRUE] :
     k \in {k \in DOMAIN store : k[1] = "upload"}}

\* handle for a PUT to an upload href
HandleUpload(request) ==
  LET key == <<request.operation, request.uuid>>
      o == Transfer(request, [store |-> store, dates |-> dates], objs,
                    now, now, adapter, dir, inode)
  IN /\ store' = o.S.store
     /\ dates' = o.S.dates
     /\ IF o.task.pc = "none"
        THEN UNCHANGED tasks
        ELSE /\ BagCardinality(tasks) < MaxUploads
             /\ Suspend(o.task)
     /\ hist' = IF o.got
                THEN [hist EXCEPT ![key].got = @ + 1,
                                  ![key].ok = @ + (IF o.ok THEN 1 ELSE 0)]
                ELSE hist
     /\ UNCHANGED <<account, origin, adapter, now, nticks, draws, objs, timers, dir,
                    inode, last>>

NextUploads ==
  \/ \E request \in TwicePuts : HandleUpload(request)
  \/ \E t \in Running : DenoEnsure(t)
  \/ \E t \in Running : DenoOpen(t)
  \/ \E t \in Running : \E chunk \in Chunks : DenoChunk(t, chunk)
  \/ \E t \in Running : DenoEnd(t)

SpecUploads == InitUploads /\ [][NextUploads]_vars

\* ------------------------------------------------ specification: account

\* The batch route of a server started with or without GGLFS_USERNAME and
\* GGLFS_PASSWORD, under every short authorization header.

Accounts == [username : {<<>>, Username}, password : {<<>>, Password}]

InitAccount ==
  /\ Started
  /\ origin = Local
  /\ account \in Accounts

\* #batch to its first return or await; a refusal is kept in last
BatchArrives(request) ==
  IF BatchHead(request) # 0
  THEN /\ last' = BatchError(BatchHead(request), request, <<>>)
       /\ UNCHANGED <<account, origin, adapter, now, nticks, draws, objs,
                      store, dates, timers, dir, inode, tasks, hist>>
  ELSE HandleBatch(request)

NextAccount ==
  \/ \E request \in AuthRequests : BatchArrives(request)
  \/ \E t \in Running : \E raw \in AuthBodies : BatchBody(t, raw)
  \/ \E t \in Running : \E i \in 1 .. MaxObjects : CheckDone(t, i)

SpecAccount == InitAccount /\ [][NextAccount]_vars

\* --------------------------------------------------------------- C11

\* The decoded Basic credentials of a header are the configured pair: the
\* payload is the username, one colon, and the password.
ConfiguredPair(authorization) ==
  /\ Len(authorization) = 2
  /\ authorization[1] = "Basic"
  /\ authorization[2] = Word(Username \o <<":">> \o Password)

\* C11: only authenticated batches register transfers.  Every key in the store
\* was registered by a batch request whose decoded Basic credentials were
\* exactly the configured username and password, and a batch request answered
\* 401, 405, 406, 422 or 400 leaves the store unchanged.
C11_AuthenticatedOnly ==
  /\ [](\A k \in DOMAIN store : ConfiguredPair(hist[k].by))
  /\ [][<<store, dates, timers, objs>>' # <<store, dates, timers, objs>>
          => \E t \in Running : \E raw \in AuthBodies :
               /\ BatchStatus(t.request, raw) = 200
               /\ BatchBody(t, raw)]_vars

\* --------------------------------------------------------------- C12

\* C12: credential parsing never faults.  For every authorization header,
\* parseAuthorization returns a credentials pair or null and never raises an
\* error that reaches its caller.
C12_NeverFaults ==
  last.handler = "parseAuthorization" => last.body.tag \in {"ok", "null"}

\* --------------------------------------------------------------- C13

RECURSIVE Count(_, _)
Count(s, c) ==
  IF s = <<>> THEN 0
  ELSE (IF Head(s) = c THEN 1 ELSE 0) + Count(Tail(s), c)

\* C13: exactly one colon.  parseAuthorization returns credentials only when
\* the decoded Basic payload has exactly one colon, a non-empty username
\* before it and a non-empty password after it; a payload with no colon or
\* with two or more colons yields null.
C13_ExactlyOneColon ==
  /\ last.handler = "parseAuthorization"
  /\ Len(last.request.authorization) = 2
  /\ last.request.authorization[1] = "Basic"
  /\ last.request.authorization[2].b64
  => LET decoded == last.request.authorization[2].text
         i == IndexOf(decoded, ":", 1)
     IN /\ last.body.tag = "ok"
             => /\ Count(decoded, ":") = 1
                /\ last.body.username = SubSeq(decoded, 1, i - 1)
                /\ last.body.password = SubSeq(decoded, i + 1, Len(decoded))
                /\ last.body.username # <<>> /\ last.body.password # <<>>
        /\ Count(decoded, ":") # 1 => last.body.tag = "null"

\* --------------------------------------------------------------- C14

\* URL.host: the hostname, and the port when there is one
HostOf(url) == <<url.hostname, url.port>>

\* C14: origin enforcement.  When the configured origin differs from the local
\* URL, every request whose effective host (port included) or scheme, after
\* the forwarded headers are applied, is not equal to the origin's host and
\* scheme is answered 404 by the origin check, before any route is matched.
C14_OriginEnforcement ==
  origin # Local =>
    /\ \A via \in Vias :
         HostOf(Forwarded(via)) # HostOf(origin)
           \/ Forwarded(via).scheme # origin.scheme
         => OriginError(origin, Local, via) = 404
    /\ last.handler = "batch" =>
         /\ HostOf(Forwarded(last.request.via)) = HostOf(origin)
         /\ Forwarded(last.request.via).scheme = origin.scheme

\* --------------------------------------------------------------- C15

\* C15: proxy-only when an origin is configured.  When the configured origin
\* differs from the local URL, a request that carries neither x-forwarded-host
\* nor x-forwarded-proto is answered 404 and nothing else.
C15_ProxyOnly ==
  origin # Local =>
    /\ \A via \in Vias :
         via.xfh = NoHeader /\ via.xfp = NoHeader
         => OriginError(origin, Local, via) = 404
    /\ last.handler = "batch" =>
         last.request.via.xfh # NoHeader \/ last.request.via.xfp # NoHeader

\* --------------------------------------------------------------- C16

\* The clock can advance between has() and get() of a request arriving now
CanCross(request, d) ==
  d = 1 => /\ nticks < MaxTicks
           /\ TickStep(nticks) = 1
           /\ KeyOf(request) \in DOMAIN store

\* C16: indistinguishable 404s.  For any transfer request, the response when
\* the key was consumed, the response when the key has expired and the
\* response when the key was never issued are the same: status 404 without a
\* body, made by handle itself.
C16_Indistinguishable ==
  \A request \in TransferRequests : \A d \in Delays :
    LET k == KeyOf(request)
        consumed == k \in DOMAIN hist /\ hist[k].got >= 1
        expired == /\ k \in DOMAIN hist
                   /\ (now + d) - hist[k].at >= EXPIRES_IN * 1000
        never == k \notin DOMAIN hist
    IN CanCross(request, d) /\ (consumed \/ expired \/ never) =>
         [Answer(request, d).response EXCEPT !.key = NoKey]
           = Response("handle", 404, NoKey)

\* --------------------------------------------------------------- C17

\* The object registered under a key, issued or consumed
Registered(k) == objs[hist[k].ref]

\* C17: verify uses the token-bound object.  Whatever oid and size the body
\* of a verify request names, the file handed to the adapter's check is the
\* file of the object registered under the key, and the request is answered
\* 200 when that file is present with the registered size and 404 otherwise.
C17_TokenBound ==
  /\ [](\A t \in Running :
         t.pc = "vcheck" => t.file = getFile(Registered(t.key), t.file.repo))
  /\ [][\A t \in Running :
          /\ t.pc \in {"verify", "vcheck"}
          /\ tasks' = tasks (-) SetToBag({t})
          /\ last'.status # 422
          => /\ last'.handler = "verify"
             /\ last'.key = t.key
             /\ last'.status =
                  IF AdapterCheck(dir, inode,
                                  getFile(Registered(t.key), t.file.repo))
                  THEN 200 ELSE 404]_vars

\* A verify whose body names another object than the one registered under its
\* key has been answered 200.
C17_OtherObjectNamed ==
  /\ last.handler = "verify"
  /\ last.status = 200
  /\ last.body.shape
  /\ last.body.oid # Registered(last.key).oid
  /\ last.body.size # Registered(last.key).size

\* --------------------------------------------------------------- C18

\* C18: upload then verify.  Redeeming an upload key, whatever the outcome,
\* neither removes nor changes the entry registered under the paired verify
\* key; a POST to the verify href within the TTL with the verify token, the
\* accept header and a body of valid shape is routed to the verify handler
\* and is answered 200 when the object is present with the declared size, as
\* it is after a successful upload.
C18_UploadThenVerify ==
  /\ [](\A request \in UploadRequests : \A d \in Delays :
         CanCross(request, d) /\ KeyOf(request) \in DOMAIN store =>
           \A kv \in DOMAIN store :
             kv[1] = "verify" /\ store[kv] = store[KeyOf(request)] =>
               /\ kv \in DOMAIN Answer(request, d).S.store
               /\ Answer(request, d).S.store[kv] = store[kv]
               /\ Answer(request, d).S.dates[kv] = dates[kv])
  /\ [](\A kv \in DOMAIN store :
         kv[1] = "verify" /\ now - hist[kv].at < EXPIRES_IN * 1000 =>
           \A request \in Authorized(kv) :
             request.method = "POST" /\ request.accept = <<LFS>> =>
               Answer(request, 0).task
                 = [pc |-> "verify", key |-> kv,
                    file |-> getFile(Registered(kv), request.repo)])
  /\ [][/\ \A ref \in DOMAIN objs : objs'[ref] = objs[ref]
        /\ \A t \in Running :
             /\ t.pc \in {"verify", "vcheck"}
             /\ tasks' = tasks (-) SetToBag({t})
             /\ last'.status # 422
             /\ AdapterCheck(dir, inode, getFile(Registered(t.key), t.file.repo))
             => last' = [Response("verify", 200, t.key)
                          EXCEPT !.body = last'.body]]_vars

\* The upload of an object that was not in storage has been answered 200 and
\* the verify request to the paired key has then been answered 200.
C18_VerifiedAfterUpload ==
  /\ last.handler = "verify"
  /\ last.status = 200
  /\ InitialFiles[<<"repo", Registered(last.key).oid, "">>] = 0
  /\ \E ku \in DOMAIN hist :
       /\ ku[1] = "upload"
       /\ hist[ku].ref = hist[last.key].ref
       /\ hist[ku].ok = 1

\* --------------------------------------------------------------- C19

\* The method each transfer handler requires
MethodOf(operation) ==
  IF operation = "download" THEN "GET"
  ELSE IF operation = "upload" THEN "PUT" ELSE "POST"

\* The request passes the method check and, for verify, the accept check
PassesEntry(request) ==
  /\ request.method = MethodOf(request.operation)
  /\ request.operation = "verify" => acceptError(request, LFS) = 0

\* C19: consumption point.  A request routed to a live download, upload or
\* verify key deletes the entry exactly when it passes the method check (and
\* the accept check, for verify), whether or not its token matches.  A request
\* answered 405 or 406 leaves the entry registered and redeemable; a request
\* answered 401, 400 or 422 has consumed it, and every next request to the key
\* gets 404.
C19_ConsumptionPoint ==
  \A request \in DownloadRequests \cup UploadRequests \cup VerifyRequests :
    \A d \in Delays :
      LET k == KeyOf(request)
          o == Answer(request, d)
      IN /\ CanCross(request, d)
         /\ k \in DOMAIN store
         /\ now - hist[k].at < EXPIRES_IN * 1000
         => /\ k \notin DOMAIN o.S.store <=> PassesEntry(request)
            /\ o.response.status \in {405, 406} <=> ~PassesEntry(request)
            /\ ~PassesEntry(request) =>
                 /\ o.S = [store |-> store, dates |-> dates]
                 /\ o.task = NoTask
                 /\ \A next \in Authorized(k) :
                      PassesEntry(next) =>
                        Transfer(next, o.S, objs, now, now, adapter, dir,
                                 inode).ok
            /\ PassesEntry(request) =>
                 /\ d = 0 /\ request \notin Authorized(k)
                      => o.response.status = 401
                 /\ \A next \in TransferRequests :
                      KeyOf(next) = k =>
                        Transfer(next, o.S, objs, now + d, now + d, adapter,
                                 dir, inode).response
                          = Response("handle", 404, k)

\* A request with the right method and a wrong token has consumed a key within
\* its lifetime: the request that carries the issued token now gets 404.
C19_ConsumedByWrongToken ==
  \E k \in DOMAIN hist :
    /\ hist[k].got = 1
    /\ hist[k].ok = 0
    /\ k \notin DOMAIN store
    /\ now - hist[k].at < EXPIRES_IN * 1000
    /\ \A request \in Authorized(k) : Answer(request, 0).response.status = 404

\* --------------------------------------------------------------- C20

\* The smallest expires_in among the actions of an entry that has actions
MinExpiresIn(object) ==
  CHOOSE e \in {object.actions[j].expires_in : j \in DOMAIN object.actions} :
    \A j \in DOMAIN object.actions : e <= object.actions[j].expires_in

Keys == {"download", "upload", "verify"} \X Uuids

\* C21: bounded store.  Every key registered in the store is eventually absent
\* from the entry map and from the creation-time map, even if no request
\* addresses it again, provided timers that are due fire.  Removals may come
\* in any order, and a removal of a key that is already gone changes nothing
\* but the timer that ran.
C21_BoundedStore ==
  /\ \A k \in Keys :
       (k \in DOMAIN store)
         ~> (k \notin DOMAIN store /\ k \notin DOMAIN dates)
  /\ [][\A timer \in timers :
          timer.key \notin DOMAIN store /\ timers' = timers \ {timer}
          => UNCHANGED <<store, dates, objs, dir, inode, tasks, last, hist>>]_vars
  /\ [](\A k \in Keys \ DOMAIN store :
         /\ StoreDelete([store |-> store, dates |-> dates], k)
              = [store |-> store, dates |-> dates]
         /\ StoreExpired([store |-> store, dates |-> dates], objs, k, now)
              = [ret |-> TRUE, S |-> [store |-> store, dates |-> dates]])

\* A key no request ever addressed is gone from both maps, its timer has run,
\* and the timer of a key that a request redeemed is still pending.
C21_RemovedUnaddressed ==
  \E k \in DOMAIN hist :
    /\ hist[k].got = 0
    /\ k \notin DOMAIN store
    /\ k \notin DOMAIN dates
    /\ \A timer \in timers : timer.key # k
    /\ \E timer \in timers :
         timer.key \notin DOMAIN store /\ hist[timer.key].got = 1

\* --------------------------------------------------------------- C22

\* The repo of the batch request that issued a key: respond builds every href
\* of the entry on joinURL(repo, origin)
IssuedRepo(k) == Registered(k).actions[1].href.base

\* C22: repo binding.  The file handed to the adapter when an action is
\* redeemed lies in the repo of the batch request that issued the action, and
\* the adapter creates or changes a file only in the repo for which an upload
\* of that object was issued.
C22_RepoBinding ==
  /\ \A t \in InFlight : t.file.repo = IssuedRepo(t.key)
  /\ \A p \in Paths :
       dir[p] # InitialFiles[p] =>
         \E k \in DOMAIN hist :
           /\ k[1] = "upload"
           /\ IssuedRepo(k) = p[1]
           /\ Registered(k).oid = p[2]

\* --------------------------------------------------------------- C23

\* C23: no absent dereference.  Whenever handle dispatches a request to the
\* download, upload or verify handler because has(key) was true, the
\* handler's get(key) returns the entry, also when the clock crosses the
\* entry's TTL between the two calls; the handler does not fault and the
\* request ends in one of the documented statuses (or waits for its body).
C23_NoAbsentDereference ==
  \A request \in DownloadRequests \cup UploadRequests \cup VerifyRequests :
    \A d \in Delays :
      /\ CanCross(request, d)
      /\ StoreHas([store |-> store, dates |-> dates], objs, KeyOf(request),
                  now).ret
      => /\ PassesEntry(request) => Answer(request, d).got
         /\ Answer(request, d).response.handler = request.operation
         /\ Answer(request, d).response.status
              \in {0, 200, 400, 401, 404, 405, 406, 422}

\* --------------------------------------------------------------- C24

\* C24: published content under concurrent uploads.  When two upload actions
\* issued for the same oid in the same repo are redeemed at the same time
\* through the Deno adapter, then for every interleaving the content at the
\* canonical path after both have finished is what it was before or a byte
\* sequence whose SHA-256 is the oid, and each upload ends with 200 or 422.
C24_PublishedIntegrity ==
  /\ last.handler = "upload" => last.status \in {200, 422}
  /\ (/\ tasks = EmptyBag
      /\ \A k \in DOMAIN hist : k[1] = "upload" => hist[k].ok = 1)
     => \A k \in DOMAIN hist :
          LET file == getFile(Registered(k), IssuedRepo(k))
              after == ContentAt(dir, inode, file.pathname)
          IN \/ after = ContentAt(InitialFiles, <<<<2>>>>, file.pathname)
             \/ after.exists /\ SHA256(after.content) = file.oid

\* --------------------------------------------------------------- C25

\* C25: no orphaned registrations.  Once a batch response has been returned,
\* every key the store holds belongs to an action that appears, with its
\* token, in a returned response object; a download object answered with the
\* 404 error stanza has no key left.  (Stated for the first batch of a run:
\* it is the only response that has been returned.)
C25_NoOrphans ==
  (/\ last.handler = "batch"
   /\ last.status = 200
   /\ draws = DrawsOf(last.body.operation, last.body.objects))
  => \A k \in DOMAIN store :
       \E i \in DOMAIN last.json : \E j \in DOMAIN last.json[i].actions :
         /\ last.json[i].actions[j].href.key = k
         /\ last.json[i].actions[j].authorization
              = ActionHeader(Registered(k), k[1])

\* --------------------------------------------------------------- C26

\* C26: unset credentials deny everything.  When the configured username or
\* the configured password is the empty string, no batch request is answered
\* 200 and no transfer is registered, whatever the authorization header:
\* absent, or with an empty username or password.
C26_UnsetDenies ==
  account.username = <<>> \/ account.password = <<>> =>
    /\ \A request \in AuthRequests : BatchHead(request) # 0
    /\ last.handler = "batch" => last.status \notin {0, 200}
    /\ store = <<>> /\ dates = <<>> /\ timers = {} /\ objs = <<>>
    /\ tasks = EmptyBag

\* A server without a username has refused the header whose decoded payload
\* is ":p", an empty username and the configured password.
C26_EmptyUsernameRefused ==
  /\ account = [username |-> <<>>, password |-> Password]
  /\ last.handler = "batch"
  /\ last.status = 401
  /\ last.request.authorization = <<"Basic", Word(<<":">> \o Password)>>

====
